---- MODULE Spec2Model ----
(***************************************************************************)
(* Campaign engine of the WhatsApp CRM API: the campaign state machine     *)
(* (CampaignService), the job rows (CampaignJob, CampaignJobService), the  *)
(* progress reconciler (updateCampaignJobProgress) and the queue worker    *)
(* that reports job outcomes (campaignWorker in whatsapp-client.ts).       *)
(*                                                                         *)
(* Time is counted in ticks, TicksPerMinute to the minute (the program     *)
(* counts milliseconds, 60000 to the minute).  A nullable column holds     *)
(* NULL (numbers) or NoStr (strings).  The timestamps that the program     *)
(* writes and never reads back (startedAt, completedAt, pausedAt,          *)
(* processingStartedAt, processedAt) hold NoStr or Stamp; scheduledAt and  *)
(* nextSendAt, which the program orders and subtracts, hold ticks.         *)
(***************************************************************************)
EXTENDS Integers, Sequences, FiniteSets, TLC

\* ---- bounds of the model ----
NumContacts == 2      \* contacts in the campaign's contact group
MaxJobRows == 2       \* cap on the rows of campaign_jobs
MaxQueue == 2         \* cap on the queue jobs ever added
MaxTime == 1          \* minutes after which the clock stops advancing
TicksPerMinute == 2   \* resolution of the clock
DayMinutes == 3       \* length of a day in minutes (the program's is 24 * 60)
MaxInterval == 2      \* largest minIntervalMinutes/maxIntervalMinutes drawn
MaxJobs == 2          \* largest totalJobs handed to the allocator
MaxDays == 4          \* the allocator's cursor is followed this many days

\* ---- program constants ----
DefaultMaxRetries == 3    \* CampaignJob.maxRetries column default
QueueAttempts == 3        \* attempts of a queue job added by the start route
RetryAttempts == 1        \* attempts of a queue job added by the retry route

NULL == 0 - 1
NoStr == "null"
Stamp == "set"
CampaignId == 1
Workers == {"w1", "w2"}
MainWorker == "w1"

VARIABLES
  setup,        \* the campaign's relations (group, templates, contacts) and
                \* whether the database reads row versions instead of locking
  campaign,     \* the committed row of table campaigns
  jobs,         \* the committed rows of table campaign_jobs (index = id)
  queue,        \* the jobs of queue send-campaign-message (index = id)
  requests,     \* start/retry routes suspended in their enqueue loop
  workers,      \* per worker: position in the handler and open transaction
  sends,        \* per job row: messages handed to the transport
  now,          \* the clock
  response,     \* the last service call and whether it returned or threw
  sched         \* a call of CampaignTimeScheduler: arguments, position, result

vars ==
  <<setup, campaign, jobs, queue, requests, workers, sends, now, response, sched>>

\* ------------------------------------------------------------------------
\* Pure helpers
\* ------------------------------------------------------------------------

\* JavaScript a || b on a nullable string or date
OrElseStr(a, b) == IF a # NoStr THEN a ELSE b

Min(S) == CHOOSE x \in S : \A y \in S : x <= y

RECURSIVE SumTo(_, _)
SumTo(draws, k) == IF k <= 0 THEN 0 ELSE draws[k] + SumTo(draws, k - 1)

\* CampaignTimeScheduler.getRandomInterval: floor(random * (max-min+1)) + min
GetRandomInterval(minI, maxI) ==
  IF maxI >= minI THEN minI..maxI ELSE (maxI + 1)..minI

\* CampaignTimeScheduler.scheduleJobsAllDay: timestamp i is the cursor after
\* i-1 interval draws
ScheduleJobsAllDay(totalJobs, startTime, draws) ==
  [i \in 1..totalJobs |-> startTime + SumTo(draws, i - 1) * TicksPerMinute]

\* Math.round(x * 100) / 100 of x = processed / total * 100, in hundredths
\* rounding to whole percents
RoundPct(processed, total) ==
  IF total > 0 THEN (2 * 100 * processed + total) \div (2 * total) ELSE 0

Round2Pct(processed, total) ==
  IF total > 0 THEN (2 * 10000 * processed + total) \div (2 * total) ELSE 0

\* canRetry that looks at the status only
CanRetryAnyCount(job) == job.status = "failed"

\* CampaignJob.canRetry
CanRetry(job) == job.status = "failed" /\ job.retryCount < job.maxRetries

RowsOf(tbl, cid) == {i \in 1..Len(tbl) : tbl[i].campaignId = cid}

\* the grouped count of updateCampaignJobProgress: rows of the campaign
\* whose status is in S
CountStatus(tbl, cid, S) ==
  Cardinality({i \in RowsOf(tbl, cid) : tbl[i].status \in S})

\* findOne(CampaignJob, {campaignId, status: 'pending'}, order scheduledAt)
NextPendingAt(tbl, cid) ==
  LET P == {i \in RowsOf(tbl, cid) : tbl[i].status = "pending"}
  IN  IF P = {} THEN NULL ELSE Min({tbl[i].scheduledAt : i \in P})

\* ------------------------------------------------------------------------
\* CampaignTimeScheduler.  c is the campaign's scheduling configuration:
\* isAllDay, dailyStartTime and dailyEndTime (ticks after midnight, or NULL),
\* minIntervalMinutes and maxIntervalMinutes.
\* ------------------------------------------------------------------------

Day == DayMinutes * TicksPerMinute

\* Campaign.hasTimeRestrictions: a daily window is configured
HasTimeRestrictions(c) ==
  ~c.isAllDay /\ c.dailyStartTime # NULL /\ c.dailyEndTime # NULL

\* Campaign.dailyStartTimeAsDate / dailyEndTimeAsDate: the time of day as an
\* instant of one fixed date
DailyTimeAsDate(timeOfDay) == timeOfDay

\* the branch taken by getScheduleInfo and scheduleJobsWithTimeWindows
RunsAllDay(c) == c.isAllDay \/ ~HasTimeRestrictions(c)

\* parseTimeToDate: the time of day on the date of referenceDate
ParseTimeToDate(timeOfDay, referenceDate) ==
  referenceDate - (referenceDate % Day) + timeOfDay

NoWindow == [isNull |-> TRUE]

TimeWindow(start, end, isToday, remainingMinutes) ==
  [isNull |-> FALSE, start |-> start, end |-> end, isToday |-> isToday,
   remainingMinutes |-> remainingMinutes]

\* calculateWindowDuration
CalculateWindowDuration(c) ==
  IF c.dailyStartTime = NULL \/ c.dailyEndTime = NULL THEN 0
  ELSE LET d == DailyTimeAsDate(c.dailyEndTime) - DailyTimeAsDate(c.dailyStartTime)
       IN  (IF d < 0 THEN d + Day ELSE d) \div TicksPerMinute

\* getCurrentTimeWindow that starts the early part of an overnight window
\* today instead of yesterday
GetCurrentTimeWindowSameDate(c, referenceTime) ==
  IF c.dailyStartTime = NULL \/ c.dailyEndTime = NULL THEN NoWindow
  ELSE
    LET todayStart == ParseTimeToDate(c.dailyStartTime, referenceTime)
        todayEnd == ParseTimeToDate(c.dailyEndTime, referenceTime)
    IN  IF todayStart > todayEnd
        THEN IF referenceTime >= todayStart
             THEN TimeWindow(todayStart, todayEnd + Day, TRUE,
                             (todayEnd + Day - referenceTime) \div TicksPerMinute)
             ELSE IF referenceTime <= todayEnd
             THEN TimeWindow(todayStart, todayEnd, TRUE,
                             (todayEnd - referenceTime) \div TicksPerMinute)
             ELSE NoWindow
        ELSE IF referenceTime >= todayStart /\ referenceTime <= todayEnd
             THEN TimeWindow(todayStart, todayEnd, TRUE,
                             (todayEnd - referenceTime) \div TicksPerMinute)
             ELSE NoWindow

\* getCurrentTimeWindow
GetCurrentTimeWindow(c, referenceTime) ==
  IF c.dailyStartTime = NULL \/ c.dailyEndTime = NULL THEN NoWindow
  ELSE
    LET todayStart == ParseTimeToDate(c.dailyStartTime, referenceTime)
        todayEnd == ParseTimeToDate(c.dailyEndTime, referenceTime)
    IN  IF todayStart > todayEnd
        THEN IF referenceTime >= todayStart
             THEN TimeWindow(todayStart, todayEnd + Day, TRUE,
                             (todayEnd + Day - referenceTime) \div TicksPerMinute)
             ELSE IF referenceTime <= todayEnd
             THEN TimeWindow(todayStart - Day, todayEnd, TRUE,
                             (todayEnd - referenceTime) \div TicksPerMinute)
             ELSE NoWindow
        ELSE IF referenceTime >= todayStart /\ referenceTime <= todayEnd
             THEN TimeWindow(todayStart, todayEnd, TRUE,
                             (todayEnd - referenceTime) \div TicksPerMinute)
             ELSE NoWindow

\* getNextTimeWindow that ends today's window today also when it wraps
GetNextTimeWindowNoWrap(c, referenceTime) ==
  IF c.dailyStartTime = NULL \/ c.dailyEndTime = NULL THEN NoWindow
  ELSE
    LET todayStart == ParseTimeToDate(c.dailyStartTime, referenceTime)
        todayEnd == ParseTimeToDate(c.dailyEndTime, referenceTime)
    IN  IF referenceTime < todayStart
        THEN TimeWindow(todayStart, todayEnd, TRUE, CalculateWindowDuration(c))
        ELSE TimeWindow(todayStart + Day,
                        todayEnd + (IF todayStart > todayEnd THEN 2 ELSE 1) * Day,
                        FALSE, CalculateWindowDuration(c))

\* getNextTimeWindow
GetNextTimeWindow(c, referenceTime) ==
  IF c.dailyStartTime = NULL \/ c.dailyEndTime = NULL THEN NoWindow
  ELSE
    LET todayStart == ParseTimeToDate(c.dailyStartTime, referenceTime)
        todayEnd == ParseTimeToDate(c.dailyEndTime, referenceTime)
    IN  IF referenceTime < todayStart
        THEN TimeWindow(todayStart,
                        IF todayStart > todayEnd THEN todayEnd + Day ELSE todayEnd,
                        TRUE, CalculateWindowDuration(c))
        ELSE TimeWindow(todayStart + Day,
                        todayEnd + (IF todayStart > todayEnd THEN 2 ELSE 1) * Day,
                        FALSE, CalculateWindowDuration(c))

\* isWithinWindow
IsWithinWindow(time, window) == time >= window.start /\ time <= window.end

ScheduleResult(canScheduleNow, nextAvailableTime, currentWindow, nextWindow) ==
  [canScheduleNow |-> canScheduleNow, nextAvailableTime |-> nextAvailableTime,
   currentWindow |-> currentWindow, nextWindow |-> nextWindow]

\* getScheduleInfo that takes the window to be open at both ends
GetScheduleInfoOpenWindow(c, referenceTime) ==
  IF RunsAllDay(c)
  THEN ScheduleResult(TRUE, referenceTime, NoWindow, NoWindow)
  ELSE
    LET currentWindow == GetCurrentTimeWindow(c, referenceTime)
        nextWindow == GetNextTimeWindow(c, referenceTime)
    IN  IF /\ currentWindow # NoWindow
           /\ referenceTime > currentWindow.start
           /\ referenceTime < currentWindow.end
        THEN ScheduleResult(TRUE, referenceTime, currentWindow, nextWindow)
        ELSE ScheduleResult(FALSE,
                            IF nextWindow # NoWindow THEN nextWindow.start
                            ELSE referenceTime,
                            NoWindow, nextWindow)

\* getScheduleInfo
GetScheduleInfo(c, referenceTime) ==
  IF RunsAllDay(c)
  THEN ScheduleResult(TRUE, referenceTime, NoWindow, NoWindow)
  ELSE
    LET currentWindow == GetCurrentTimeWindow(c, referenceTime)
        nextWindow == GetNextTimeWindow(c, referenceTime)
    IN  IF currentWindow # NoWindow /\ IsWithinWindow(referenceTime, currentWindow)
        THEN ScheduleResult(TRUE, referenceTime, currentWindow, nextWindow)
        ELSE ScheduleResult(FALSE,
                            IF nextWindow # NoWindow THEN nextWindow.start
                            ELSE referenceTime,
                            NoWindow, nextWindow)

\* a capacity that keeps the window's last slot free
JobsToScheduleOneLess(c, window, maxJobs) ==
  LET twiceAvg == c.minIntervalMinutes + c.maxIntervalMinutes
      fit == IF twiceAvg > 0
             THEN ((2 * window.remainingMinutes) \div twiceAvg) - 1
             ELSE IF twiceAvg = 0 /\ window.remainingMinutes > 0 THEN maxJobs
             ELSE 0
  IN  IF fit < maxJobs THEN fit ELSE maxJobs

\* scheduleJobsInWindow: Math.min(maxJobs, Math.floor(remainingMinutes /
\* avgInterval)) with avgInterval = (min + max) / 2; a zero average divides to
\* Infinity (every job) or, with no minute remaining, to NaN (no job)
JobsToSchedule(c, window, maxJobs) ==
  LET twiceAvg == c.minIntervalMinutes + c.maxIntervalMinutes
      fit == IF twiceAvg > 0 THEN (2 * window.remainingMinutes) \div twiceAvg
             ELSE IF twiceAvg = 0 /\ window.remainingMinutes > 0 THEN maxJobs
             ELSE 0
  IN  IF fit < maxJobs THEN fit ELSE maxJobs

\* the for loop of scheduleJobsInWindow from iteration i with cursor
\* currentTime; draws[i] is the interval drawn in iteration i
RECURSIVE WindowLoop(_, _, _, _, _)
WindowLoop(window, currentTime, i, jobsToSchedule, draws) ==
  IF i > jobsToSchedule \/ currentTime >= window.end THEN <<>>
  ELSE <<currentTime>> \o
       WindowLoop(window, currentTime + draws[i] * TicksPerMinute, i + 1,
                  jobsToSchedule, draws)

\* scheduleJobsInWindow without the check against the window's end
ScheduleJobsInWindowUnclamped(c, window, startTime, maxJobs, draws) ==
  [i \in 1..JobsToSchedule(c, window, maxJobs) |->
     startTime + SumTo(draws, i - 1) * TicksPerMinute]

\* scheduleJobsInWindow
ScheduleJobsInWindow(c, window, startTime, maxJobs, draws) ==
  WindowLoop(window, startTime, 1, JobsToSchedule(c, window, maxJobs), draws)

\* ------------------------------------------------------------------------
\* Rows
\* ------------------------------------------------------------------------

NewCampaign ==
  [status |-> "inactive", totalContacts |-> 0, messagesSent |-> 0,
   messagesFailed |-> 0, messagesPending |-> 0, progressPercentage |-> 0,
   nextSendAt |-> NULL, startedAt |-> NoStr, completedAt |-> NoStr,
   pausedAt |-> NoStr, minIntervalMinutes |-> 1, maxIntervalMinutes |-> 1]

NewJob(id, cid, contact, at) ==
  [id |-> id, campaignId |-> cid, contactId |-> contact, status |-> "pending",
   queueJobId |-> NULL, scheduledAt |-> at, processingStartedAt |-> NoStr,
   processedAt |-> NoStr, whatsappMessageId |-> NoStr, errorMessage |-> NoStr,
   retryCount |-> 0, maxRetries |-> DefaultMaxRetries]

\* CampaignJobUpdate
JobUpdate(qid, st, msgId, err, startedAt, processedAt) ==
  [jobId |-> qid, status |-> st, whatsappMessageId |-> msgId,
   errorMessage |-> err, processingStartedAt |-> startedAt,
   processedAt |-> processedAt]

\* ------------------------------------------------------------------------
\* CampaignService.updateCampaignJobProgress
\* ------------------------------------------------------------------------

\* the row found by queueJobId (0 when none)
FindJobByQueueId(tbl, qid) ==
  LET F == {i \in 1..Len(tbl) : tbl[i].queueJobId = qid}
  IN  IF F = {} THEN 0 ELSE Min(F)

\* the assignments made to the found job before it is saved
ApplyJobUpdate(job, upd) ==
  [job EXCEPT
     !.status = upd.status,
     !.whatsappMessageId = OrElseStr(upd.whatsappMessageId, @),
     !.errorMessage = OrElseStr(upd.errorMessage, @),
     !.processingStartedAt = OrElseStr(upd.processingStartedAt, @),
     !.processedAt = OrElseStr(upd.processedAt, @)]

\* a lookup that falls back to the first row when no row matches
SaveJobUpdateFirstRow(tbl, upd) ==
  LET i == FindJobByQueueId(tbl, upd.jobId)
      j == IF i = 0 /\ Len(tbl) > 0 THEN 1 ELSE i
  IN  IF j = 0 THEN tbl ELSE [tbl EXCEPT ![j] = ApplyJobUpdate(tbl[j], upd)]

\* the job table as the transaction sees it after saving the job
SaveJobUpdate(tbl, upd) ==
  LET i == FindJobByQueueId(tbl, upd.jobId)
  IN  IF i = 0 THEN tbl ELSE [tbl EXCEPT ![i] = ApplyJobUpdate(tbl[i], upd)]

\* the per-status counts read by the grouped query
JobStats(tbl, cid) ==
  [sent |-> CountStatus(tbl, cid, {"completed"}),
   failed |-> CountStatus(tbl, cid, {"failed"}),
   pending |-> CountStatus(tbl, cid, {"pending", "processing"}),
   nextAt |-> NextPendingAt(tbl, cid)]

\* the status the campaign is saved with
ReconciledStatus(c, stats) ==
  IF stats.pending = 0 THEN "completed" ELSE c.status

\* a reconciler that adds the counts to the counters it read
ReconcileAdding(c, stats, t) ==
  [c EXCEPT
     !.messagesSent = @ + stats.sent,
     !.messagesFailed = @ + stats.failed,
     !.messagesPending = stats.pending,
     !.progressPercentage = Round2Pct(stats.sent + stats.failed, c.totalContacts),
     !.nextSendAt = IF stats.pending = 0 THEN NULL ELSE stats.nextAt,
     !.status = ReconciledStatus(c, stats),
     !.completedAt = IF stats.pending = 0 THEN t ELSE @]

\* the campaign row saved at the end of the transaction: c is the row the
\* transaction read, stats what it aggregated, t the time of the call
Reconcile(c, stats, t) ==
  [c EXCEPT
     !.messagesSent = stats.sent,
     !.messagesFailed = stats.failed,
     !.messagesPending = stats.pending,
     !.progressPercentage = Round2Pct(stats.sent + stats.failed, c.totalContacts),
     !.nextSendAt = IF stats.pending = 0 THEN NULL ELSE stats.nextAt,
     !.status = ReconciledStatus(c, stats),
     !.completedAt = IF stats.pending = 0 THEN t ELSE @]

\* ------------------------------------------------------------------------
\* CampaignService: start, pause, resume, cancel
\* ------------------------------------------------------------------------

\* the guard of startCampaign and the validations of createCampaignJobs
\* startCampaign without its two status checks
StartErrorAnyStatus(c, s) ==
  IF ~s.hasGroup THEN "no contact group"
  ELSE IF s.templates = 0 THEN "no templates"
  ELSE IF s.contacts = 0 THEN "no contacts"
  ELSE "none"

\* createCampaignJobs without its check of the templates
StartErrorNoTemplateCheck(c, s) ==
  IF c.status = "running" THEN "already running"
  ELSE IF c.status = "completed" THEN "already completed"
  ELSE IF ~s.hasGroup THEN "no contact group"
  ELSE IF s.contacts = 0 THEN "no contacts"
  ELSE "none"

StartError(c, s) ==
  IF c.status = "running" THEN "already running"
  ELSE IF c.status = "completed" THEN "already completed"
  ELSE IF ~s.hasGroup THEN "no contact group"
  ELSE IF s.templates = 0 THEN "no templates"
  ELSE IF s.contacts = 0 THEN "no contacts"
  ELSE "none"

\* createCampaignJobs: one row per contact and timestamp
CreateCampaignJobs(tbl, cid, contacts, times) ==
  LET k == IF contacts < Len(times) THEN contacts ELSE Len(times)
  IN  tbl \o [i \in 1..k |-> NewJob(Len(tbl) + i, cid, i, times[i])]

\* a start that keeps the counters of an earlier run
InitializeCampaignProgressKeepCounts(c, totalJobs, t) ==
  [c EXCEPT
     !.totalContacts = totalJobs,
     !.status = "running",
     !.startedAt = t]

\* initializeCampaignProgress
InitializeCampaignProgress(c, totalJobs, t) ==
  [c EXCEPT
     !.totalContacts = totalJobs,
     !.messagesPending = totalJobs,
     !.messagesSent = 0,
     !.messagesFailed = 0,
     !.progressPercentage = 0,
     !.status = "running",
     !.startedAt = t]

\* pauseCampaign
PauseAllowed(c) == c.status = "running"
PauseCampaignRow(c, t) == [c EXCEPT !.status = "paused", !.pausedAt = t]

\* resumeCampaign
\* resumeCampaign that also accepts a running campaign
ResumeAllowedNotStopped(c) == c.status \in {"paused", "running"}

ResumeAllowed(c) == c.status = "paused"
ResumeCampaignRow(c) == [c EXCEPT !.status = "running", !.pausedAt = NoStr]

\* cancelCampaign
CancelAllowed(c) == c.status # "completed"
\* cancelCampaign flipping the dispatched jobs too
CancelJobsInFlight(tbl, cid) ==
  [i \in 1..Len(tbl) |->
     IF tbl[i].campaignId = cid /\ tbl[i].status \in {"pending", "processing"}
     THEN [tbl[i] EXCEPT !.status = "cancelled"] ELSE tbl[i]]

CancelJobs(tbl, cid) ==
  [i \in 1..Len(tbl) |->
     IF tbl[i].campaignId = cid /\ tbl[i].status = "pending"
     THEN [tbl[i] EXCEPT !.status = "cancelled"] ELSE tbl[i]]
CancelCampaignRow(c, t) ==
  [c EXCEPT !.status = "cancelled", !.completedAt = t, !.nextSendAt = NULL]

\* CampaignJobService.retryFailedJob
RetryJobRow(job, t) ==
  [job EXCEPT !.status = "pending", !.errorMessage = NoStr,
              !.processingStartedAt = NoStr, !.processedAt = NoStr,
              !.retryCount = @ + 1, !.scheduledAt = t]

\* updateJobWithQueueId
UpdateJobWithQueueId(tbl, id, qid) == [tbl EXCEPT ![id].queueJobId = qid]

\* ------------------------------------------------------------------------
\* Queue jobs, requests, workers
\* ------------------------------------------------------------------------

\* jobQueue.add('send-campaign-message', jobData, {delay, attempts})
QueueJob(rowId, cid, fireAt, attempts) ==
  [campaignJobId |-> rowId, campaignId |-> cid, fireAt |-> fireAt,
   attemptsLeft |-> attempts, state |-> "waiting"]

NoStats == [sent |-> 0, failed |-> 0, pending |-> 0, nextAt |-> NULL]
NoTx == [phase |-> "none", row |-> 0, camp |-> NewCampaign, stats |-> NoStats]
IdleWorker == [pc |-> "idle", q |-> 0, tx |-> NoTx]

\* the update the worker reports at each of its three call sites
WorkerUpdate(st, q) ==
  IF st = "processing"
  THEN JobUpdate(q, "processing", NoStr, NoStr, Stamp, NoStr)
  ELSE IF st = "completed"
  THEN JobUpdate(q, "completed", "wamid", NoStr, NoStr, Stamp)
  ELSE JobUpdate(q, "failed", NoStr, "error", NoStr, Stamp)

\* the queue after the handler of queue job q threw: another attempt after
\* the backoff while attempts remain, else failed
QueueAfterThrow(qs, q, t) ==
  IF qs[q].attemptsLeft > 1
  THEN [qs EXCEPT ![q].attemptsLeft = @ - 1, ![q].state = "waiting",
                  ![q].fireAt = t]
  ELSE [qs EXCEPT ![q].attemptsLeft = 0, ![q].state = "failed"]

\* the queue after the handler of queue job q returned
QueueAfterReturn(qs, q) == [qs EXCEPT ![q].state = "completed"]

\* rows a transaction in flight has written and not committed
LockedRows == {workers[w].tx.row : w \in Workers} \ {0}

RECURSIVE Demand(_)
Demand(R) ==
  IF R = {} THEN 0
  ELSE LET r == CHOOSE x \in R : TRUE
       IN  Len(r.todo) - (IF r.linking # NULL THEN 1 ELSE 0) + Demand(R \ {r})

\* what a service call left behind: its name and whether it threw
NoCall == [op |-> "none", ok |-> TRUE]

\* createCampaign's defaults: all day, no daily window
DefaultSchedule ==
  [isAllDay |-> TRUE, dailyStartTime |-> NULL, dailyEndTime |-> NULL,
   minIntervalMinutes |-> 1, maxIntervalMinutes |-> 1]

NoResult == ScheduleResult(FALSE, 0, NoWindow, NoWindow)

\* no call of the scheduler under way
NoSched ==
  [pc |-> "idle", c |-> DefaultSchedule, referenceTime |-> 0, totalJobs |-> 0,
   info |-> NoResult, currentTime |-> 0, scheduledTimes |-> <<>>]
Call(op, ok) == [op |-> op, ok |-> ok]

Setups ==
  [hasGroup : BOOLEAN, templates : 0..1, contacts : 0..NumContacts,
   rowVersioning : {FALSE}]

Init ==
  /\ setup \in Setups
  /\ campaign = NewCampaign
  /\ jobs = <<>>
  /\ queue = <<>>
  /\ requests = {}
  /\ workers = [w \in Workers |-> IdleWorker]
  /\ sends = [i \in 1..MaxJobRows |-> 0]
  /\ now = 0
  /\ response = NoCall
  /\ sched = NoSched

\* ------------------------------------------------------------------------
\* Routes
\* ------------------------------------------------------------------------

\* POST /campaign/:id/start, up to the enqueue loop; ready is what
\* isClientReady answers after startCampaign has returned
StartRoute ==
  LET err == StartError(campaign, setup)
  IN  IF err # "none"
      THEN /\ response' = Call("start", FALSE)
           /\ UNCHANGED <<sched, setup, campaign, jobs, queue, requests, workers,
                          sends, now>>
      ELSE \E ready \in BOOLEAN :
           \E draws \in [1..setup.contacts ->
                           GetRandomInterval(campaign.minIntervalMinutes,
                                             campaign.maxIntervalMinutes)] :
             LET times == ScheduleJobsAllDay(setup.contacts, now, draws)
                 tbl == CreateCampaignJobs(jobs, CampaignId, setup.contacts, times)
                 created == [i \in 1..(Len(tbl) - Len(jobs)) |->
                               [id |-> Len(jobs) + i,
                                at |-> tbl[Len(jobs) + i].scheduledAt]]
             IN  /\ Len(tbl) <= MaxJobRows
                 /\ Len(queue) + Demand(requests) + Len(created) <= MaxQueue
                 /\ jobs' = tbl
                 /\ campaign' = InitializeCampaignProgress(campaign, Len(created), Stamp)
                 /\ requests' = IF ready
                                THEN requests \cup
                                       {[kind |-> "start", todo |-> created,
                                         linking |-> NULL]}
                                ELSE requests
                 /\ response' = Call("start", TRUE)
                 /\ UNCHANGED <<sched, setup, queue, workers, sends, now>>

\* POST /campaign/:id/pause
PauseRoute ==
  /\ IF PauseAllowed(campaign)
     THEN /\ campaign' = PauseCampaignRow(campaign, Stamp)
          /\ response' = Call("pause", TRUE)
     ELSE /\ campaign' = campaign
          /\ response' = Call("pause", FALSE)
  /\ UNCHANGED <<sched, setup, jobs, queue, requests, workers, sends, now>>

\* POST /campaign/:id/resume
ResumeRoute ==
  /\ IF ResumeAllowed(campaign)
     THEN /\ campaign' = ResumeCampaignRow(campaign)
          /\ response' = Call("resume", TRUE)
     ELSE /\ campaign' = campaign
          /\ response' = Call("resume", FALSE)
  /\ UNCHANGED <<sched, setup, jobs, queue, requests, workers, sends, now>>

\* POST /campaign/:id/cancel
CancelRoute ==
  /\ IF CancelAllowed(campaign)
     THEN /\ jobs' = CancelJobs(jobs, CampaignId)
          /\ campaign' = CancelCampaignRow(campaign, Stamp)
          /\ response' = Call("cancel", TRUE)
     ELSE /\ jobs' = jobs
          /\ campaign' = campaign
          /\ response' = Call("cancel", FALSE)
  /\ UNCHANGED <<sched, setup, queue, requests, workers, sends, now>>

\* POST /campaign-job/:jobId/retry, up to the enqueue
RetryRoute(id) ==
  /\ id \in 1..Len(jobs)
  /\ IF CanRetry(jobs[id])
     THEN /\ Len(queue) + Demand(requests) + 1 <= MaxQueue
          /\ jobs' = [jobs EXCEPT ![id] = RetryJobRow(@, now)]
          /\ requests' = requests \cup
                           {[kind |-> "retry",
                             todo |-> <<[id |-> id, at |-> now]>>,
                             linking |-> NULL]}
          /\ response' = Call("retry", TRUE)
     ELSE /\ jobs' = jobs
          /\ requests' = requests
          /\ response' = Call("retry", FALSE)
  /\ UNCHANGED <<sched, setup, campaign, queue, workers, sends, now>>

\* jobQueue.add for the next job of a suspended route
Enqueue(r) ==
  /\ r \in requests
  /\ r.linking = NULL
  /\ Len(queue) < MaxQueue
  /\ LET j == Head(r.todo)
         attempts == IF r.kind = "start" THEN QueueAttempts ELSE RetryAttempts
         fireAt == IF j.at > now THEN j.at ELSE now
     IN  /\ queue' = Append(queue, QueueJob(j.id, CampaignId, fireAt, attempts))
         /\ requests' = (requests \ {r}) \cup
                          {[r EXCEPT !.linking = Len(queue) + 1]}
  /\ UNCHANGED <<sched, setup, campaign, jobs, workers, sends, now, response>>

\* updateJobWithQueueId for the job just enqueued
Link(r) ==
  /\ r \in requests
  /\ r.linking # NULL
  /\ Head(r.todo).id \notin LockedRows
  /\ jobs' = UpdateJobWithQueueId(jobs, Head(r.todo).id, r.linking)
  /\ requests' = IF Len(r.todo) = 1 THEN requests \ {r}
                 ELSE (requests \ {r}) \cup
                        {[r EXCEPT !.todo = Tail(@), !.linking = NULL]}
  /\ UNCHANGED <<sched, setup, campaign, queue, workers, sends, now, response>>

\* ------------------------------------------------------------------------
\* campaignWorker, each updateCampaignJobProgress run as one step
\* ------------------------------------------------------------------------

\* findOne(Campaign, {where: {id}}) finds a row
CampaignExists(cid) == cid = CampaignId

\* a catch block that commits what was saved before the throw
CommittedJobsNoRollback(before, inTx, threw) == inTx

\* the job table after the call: what the transaction saved, or after
\* rollbackTransaction the table as it was
CommittedJobs(before, inTx, threw) == IF threw THEN before ELSE inTx

\* updateCampaignJobProgress(campaignId, upd) on the committed tables
UpdateCampaignJobProgress(cid, upd) ==
  LET tbl == SaveJobUpdate(jobs, upd)
      threw == ~CampaignExists(cid)
  IN  /\ jobs' = CommittedJobs(jobs, tbl, threw)
      /\ campaign' = IF threw THEN campaign
                     ELSE Reconcile(campaign, JobStats(tbl, cid), Stamp)

\* the queue starts the handler on a due job: it reports 'processing'
WorkerBegin(w, q) ==
  /\ workers[w].pc = "idle"
  /\ q \in 1..Len(queue)
  /\ queue[q].state = "waiting"
  /\ queue[q].fireAt <= now
  /\ UpdateCampaignJobProgress(queue[q].campaignId, WorkerUpdate("processing", q))
  /\ queue' = [queue EXCEPT ![q].state = "active"]
  /\ workers' = [workers EXCEPT ![w] = [pc |-> "send", q |-> q, tx |-> NoTx]]
  /\ UNCHANGED <<sched, setup, requests, sends, now, response>>

\* isClientReady and sendMessage, then the report of the outcome: 'completed'
\* and the handler returns, or 'failed' and it rethrows
WorkerFinish(w) ==
  LET q == workers[w].q
      row == queue[q].campaignJobId
  IN  /\ workers[w].pc = "send"
      /\ \/ /\ sends' = [sends EXCEPT ![row] = @ + 1]
            /\ UpdateCampaignJobProgress(queue[q].campaignId,
                                         WorkerUpdate("completed", q))
            /\ queue' = QueueAfterReturn(queue, q)
         \/ /\ sends' = sends
            /\ UpdateCampaignJobProgress(queue[q].campaignId,
                                         WorkerUpdate("failed", q))
            /\ queue' = QueueAfterThrow(queue, q, now)
      /\ workers' = [workers EXCEPT ![w] = IdleWorker]
      /\ UNCHANGED <<sched, setup, requests, now, response>>

\* ------------------------------------------------------------------------
\* Environment
\* ------------------------------------------------------------------------

\* a minute passes; the clock is advanced only while a delayed queue job is
\* waiting for its time
Tick ==
  /\ now < MaxTime * TicksPerMinute
  /\ \E q \in 1..Len(queue) : queue[q].state = "waiting" /\ queue[q].fireAt > now
  /\ now' = now + TicksPerMinute
  /\ UNCHANGED <<sched, setup, campaign, jobs, queue, requests, workers, sends, response>>

Next ==
  \/ StartRoute
  \/ PauseRoute
  \/ ResumeRoute
  \/ CancelRoute
  \/ \E id \in 1..MaxJobRows : RetryRoute(id)
  \/ \E r \in requests : Enqueue(r)
  \/ \E r \in requests : Link(r)
  \/ \E q \in 1..MaxQueue : WorkerBegin(MainWorker, q)
  \/ WorkerFinish(MainWorker)
  \/ Tick

Spec == Init /\ [][Next]_vars

\* ------------------------------------------------------------------------
\* Several workers, updateCampaignJobProgress step by step.  The method
\* opens a transaction at the connection's default isolation (read
\* committed) and takes no lock on the campaign row.  What a query does with
\* a job row that another open transaction has written is the database's
\* choice: with row versioning it reads the committed version, without it
\* waits for that transaction, and a cycle of waits is broken by rolling one
\* of them back.
\* ------------------------------------------------------------------------

ReportPcs == {"reportProcessing", "reportCompleted", "reportFailed"}

ReportedStatus(pc) ==
  IF pc = "reportProcessing" THEN "processing"
  ELSE IF pc = "reportCompleted" THEN "completed" ELSE "failed"

\* the job table as the open transaction of worker w reads it
TxView(w) ==
  LET wk == workers[w]
  IN  IF wk.tx.row = 0 THEN jobs
      ELSE [jobs EXCEPT ![wk.tx.row] =
              ApplyJobUpdate(@, WorkerUpdate(ReportedStatus(wk.pc), wk.q))]

\* where the handler stands once its report has returned
WorkerAfterReport(wk) ==
  IF wk.pc = "reportProcessing"
  THEN [wk EXCEPT !.pc = "send", !.tx = NoTx]
  ELSE IdleWorker

QueueAfterReport(qs, wk, t) ==
  IF wk.pc = "reportProcessing" THEN qs
  ELSE IF wk.pc = "reportCompleted" THEN QueueAfterReturn(qs, wk.q)
  ELSE QueueAfterThrow(qs, wk.q, t)

\* the queue hands a due job to an idle worker
Pickup(w, q) ==
  /\ workers[w].pc = "idle"
  /\ q \in 1..Len(queue)
  /\ queue[q].state = "waiting"
  /\ queue[q].fireAt <= now
  /\ queue' = [queue EXCEPT ![q].state = "active"]
  /\ workers' = [workers EXCEPT ![w] = [pc |-> "reportProcessing", q |-> q,
                                        tx |-> NoTx]]
  /\ UNCHANGED <<sched, setup, campaign, jobs, requests, sends, now, response>>

\* startTransaction, findOne by queueJobId, save(job)
TxBegin(w) ==
  LET wk == workers[w]
      row == FindJobByQueueId(jobs, wk.q)
  IN  /\ wk.pc \in ReportPcs
      /\ wk.tx.phase = "none"
      /\ row \notin LockedRows
      /\ workers' = [workers EXCEPT ![w].tx = [NoTx EXCEPT !.phase = "begun",
                                                           !.row = row]]
      /\ UNCHANGED <<sched, setup, campaign, jobs, queue, requests, sends, now, response>>

\* findOne(Campaign)
TxRead(w) ==
  /\ workers[w].tx.phase = "begun"
  /\ workers' = [workers EXCEPT ![w].tx.phase = "read", ![w].tx.camp = campaign]
  /\ UNCHANGED <<sched, setup, campaign, jobs, queue, requests, sends, now, response>>

\* the grouped count and the next pending job
TxAggregate(w) ==
  /\ workers[w].tx.phase = "read"
  /\ setup.rowVersioning \/ LockedRows \subseteq {workers[w].tx.row}
  /\ workers' = [workers EXCEPT
                   ![w].tx.phase = "aggregated",
                   ![w].tx.stats = JobStats(TxView(w), queue[workers[w].q].campaignId)]
  /\ UNCHANGED <<sched, setup, campaign, jobs, queue, requests, sends, now, response>>

\* save(campaign), commitTransaction, and the handler moves on
TxCommit(w) ==
  LET wk == workers[w]
  IN  /\ wk.tx.phase = "aggregated"
      /\ jobs' = TxView(w)
      /\ campaign' = Reconcile(wk.tx.camp, wk.tx.stats, Stamp)
      /\ workers' = [workers EXCEPT ![w] = WorkerAfterReport(wk)]
      /\ queue' = QueueAfterReport(queue, wk, now)
      /\ UNCHANGED <<sched, setup, requests, sends, now, response>>

\* the database ends a lock cycle between two transactions that each wrote a
\* job row and wait to count the other's: w is rolled back and its call
\* throws, into the handler's catch or out of it
TxDeadlock(w) ==
  LET wk == workers[w]
  IN  /\ ~setup.rowVersioning
      /\ wk.tx.phase = "read"
      /\ wk.tx.row # 0
      /\ \E v \in Workers \ {w} :
           workers[v].tx.phase = "read" /\ workers[v].tx.row # 0
      /\ IF wk.pc = "reportFailed"
         THEN /\ workers' = [workers EXCEPT ![w] = IdleWorker]
              /\ queue' = QueueAfterThrow(queue, wk.q, now)
         ELSE /\ workers' = [workers EXCEPT ![w] = [wk EXCEPT !.pc = "reportFailed",
                                                              !.tx = NoTx]]
              /\ queue' = queue
      /\ UNCHANGED <<sched, setup, campaign, jobs, requests, sends, now, response>>

\* isClientReady and sendMessage
Transport(w) ==
  LET wk == workers[w]
      row == queue[wk.q].campaignJobId
  IN  /\ wk.pc = "send"
      /\ \/ /\ sends' = [sends EXCEPT ![row] = @ + 1]
            /\ workers' = [workers EXCEPT ![w].pc = "reportCompleted"]
         \/ /\ sends' = sends
            /\ workers' = [workers EXCEPT ![w].pc = "reportFailed"]
      /\ UNCHANGED <<sched, setup, campaign, jobs, queue, requests, now, response>>

InitConc ==
  /\ setup \in [hasGroup : {TRUE}, templates : {1}, contacts : {NumContacts},
                rowVersioning : BOOLEAN]
  /\ campaign = NewCampaign
  /\ jobs = <<>>
  /\ queue = <<>>
  /\ requests = {}
  /\ workers = [w \in Workers |-> IdleWorker]
  /\ sends = [i \in 1..MaxJobRows |-> 0]
  /\ now = 0
  /\ response = NoCall
  /\ sched = NoSched

NextConc ==
  \/ StartRoute
  \/ \E r \in requests : Enqueue(r)
  \/ \E r \in requests : Link(r)
  \/ \E w \in Workers, q \in 1..MaxQueue : Pickup(w, q)
  \/ \E w \in Workers : TxBegin(w)
  \/ \E w \in Workers : TxRead(w)
  \/ \E w \in Workers : TxAggregate(w)
  \/ \E w \in Workers : TxCommit(w)
  \/ \E w \in Workers : TxDeadlock(w)
  \/ \E w \in Workers : Transport(w)
  \/ Tick

SpecConc == InitConc /\ [][NextConc]_vars

\* ------------------------------------------------------------------------
\* CampaignTimeScheduler called on its own: the configuration, the reference
\* (or start) time and the number of jobs are drawn at the start; the while
\* loop of scheduleJobsWithTimeWindows runs one iteration per step.
\* ------------------------------------------------------------------------

TimesOfDay == {NULL} \cup (0..(Day - 1))

SchedConfigs ==
  [isAllDay : BOOLEAN, dailyStartTime : TimesOfDay, dailyEndTime : TimesOfDay,
   minIntervalMinutes : 0..MaxInterval, maxIntervalMinutes : 0..MaxInterval]

\* the reference times: every tick of the second day
ReferenceTimes == Day..(2 * Day - 1)

\* getScheduleInfo(campaign, referenceTime)
CallGetScheduleInfo ==
  /\ sched.pc = "idle"
  /\ sched' = [sched EXCEPT
                 !.pc = "info",
                 !.info = GetScheduleInfo(sched.c, sched.referenceTime)]
  /\ UNCHANGED <<setup, campaign, jobs, queue, requests, workers, sends, now,
                 response>>

\* scheduleJobsWithTimeWindows(campaign, totalJobs, startTime) up to its loop
CallScheduleJobs ==
  /\ sched.pc = "idle"
  /\ IF RunsAllDay(sched.c)
     THEN \E draws \in [1..sched.totalJobs ->
                          GetRandomInterval(sched.c.minIntervalMinutes,
                                            sched.c.maxIntervalMinutes)] :
            sched' = [sched EXCEPT
                        !.pc = "returned",
                        !.scheduledTimes =
                           ScheduleJobsAllDay(sched.totalJobs,
                                              sched.referenceTime, draws)]
     ELSE sched' = [sched EXCEPT
                      !.pc = IF sched.totalJobs > 0 THEN "loop" ELSE "returned",
                      !.currentTime = sched.referenceTime]
  /\ UNCHANGED <<setup, campaign, jobs, queue, requests, workers, sends, now,
                 response>>

\* one iteration of the while loop, and the return when it ends the loop
ScheduleLoop ==
  /\ sched.pc = "loop"
  /\ sched.currentTime < MaxDays * Day
  /\ LET c == sched.c
         left == sched.totalJobs - Len(sched.scheduledTimes)
         scheduleInfo == GetScheduleInfo(c, sched.currentTime)
         inWindow == scheduleInfo.canScheduleNow
                       /\ scheduleInfo.currentWindow # NoWindow
     IN  \E draws \in [1..left -> GetRandomInterval(c.minIntervalMinutes,
                                                     c.maxIntervalMinutes)] :
           LET jobsInWindow ==
                 IF inWindow
                 THEN ScheduleJobsInWindow(c, scheduleInfo.currentWindow,
                                           sched.currentTime, left, draws)
                 ELSE <<>>
               times == sched.scheduledTimes \o jobsInWindow
               moved == IF inWindow THEN scheduleInfo.currentWindow.end
                        ELSE sched.currentTime
               nextWindow == GetNextTimeWindow(c, moved)
           IN  sched' = [sched EXCEPT
                           !.scheduledTimes = times,
                           !.currentTime =
                              IF Len(times) < sched.totalJobs /\ nextWindow # NoWindow
                              THEN nextWindow.start ELSE moved,
                           !.pc =
                              IF Len(times) < sched.totalJobs /\ nextWindow # NoWindow
                              THEN "loop" ELSE "returned"]
  /\ UNCHANGED <<setup, campaign, jobs, queue, requests, workers, sends, now,
                 response>>

InitSched ==
  /\ setup \in [hasGroup : {TRUE}, templates : {1}, contacts : {NumContacts},
                rowVersioning : {FALSE}]
  /\ campaign = NewCampaign
  /\ jobs = <<>>
  /\ queue = <<>>
  /\ requests = {}
  /\ workers = [w \in Workers |-> IdleWorker]
  /\ sends = [i \in 1..MaxJobRows |-> 0]
  /\ now = 0
  /\ response = NoCall
  /\ \E c \in SchedConfigs, t \in ReferenceTimes, n \in 0..MaxJobs :
       sched = [NoSched EXCEPT !.c = c, !.referenceTime = t, !.totalJobs = n]

NextSched ==
  \/ CallGetScheduleInfo
  \/ CallScheduleJobs
  \/ ScheduleLoop

SpecSched == InitSched /\ [][NextSched]_vars

\* ------------------------------------------------------------------------
\* The retry route on job rows in any state a campaign's history can leave
\* them in: every status, retryCount up to maxRetries.  The queue jobs that
\* brought the rows there are gone from the queue.
\* ------------------------------------------------------------------------

JobStatuses == {"pending", "processing", "completed", "failed", "cancelled"}

\* row id after some reports and retries
UsedJob(id, st, retries) ==
  [NewJob(id, CampaignId, id, 0) EXCEPT
     !.status = st,
     !.retryCount = retries,
     !.queueJobId = IF st = "pending" /\ retries = 0 THEN NULL ELSE 0 - (id + 1),
     !.processingStartedAt = IF st \in {"pending", "cancelled"} THEN NoStr ELSE Stamp,
     !.processedAt = IF st \in {"completed", "failed"} THEN Stamp ELSE NoStr,
     !.whatsappMessageId = IF st = "completed" THEN "wamid" ELSE NoStr,
     !.errorMessage = IF st = "failed" THEN "error" ELSE NoStr]

\* the campaign row of a started campaign whose job rows are tbl
CampaignOver(tbl) ==
  LET started == InitializeCampaignProgress(NewCampaign, Len(tbl), Stamp)
  IN  IF \E i \in 1..Len(tbl) : tbl[i].status = "cancelled"
      THEN CancelCampaignRow(started, Stamp)
      ELSE Reconcile(started, JobStats(tbl, CampaignId), Stamp)

InitRetry ==
  /\ setup \in [hasGroup : {TRUE}, templates : {1}, contacts : {NumContacts},
                rowVersioning : {FALSE}]
  /\ \E st \in [1..NumContacts -> JobStatuses],
        retries \in [1..NumContacts -> 0..DefaultMaxRetries] :
       /\ jobs = [i \in 1..NumContacts |-> UsedJob(i, st[i], retries[i])]
       /\ campaign = CampaignOver(jobs)
  /\ queue = <<>>
  /\ requests = {}
  /\ workers = [w \in Workers |-> IdleWorker]
  /\ sends = [i \in 1..MaxJobRows |-> 0]
  /\ now \in {0, TicksPerMinute}
  /\ response = NoCall
  /\ sched = NoSched

NextRetry ==
  \/ \E id \in 1..MaxJobRows : RetryRoute(id)
  \/ \E r \in requests : Enqueue(r)
  \/ \E r \in requests : Link(r)
  \/ \E q \in 1..MaxQueue : WorkerBegin(MainWorker, q)
  \/ WorkerFinish(MainWorker)

SpecRetry == InitRetry /\ [][NextRetry]_vars

\* ------------------------------------------------------------------------
\* updateCampaignJobProgress called directly, report after report, on job
\* rows in any status and a started campaign in any status.  Row i carries
\* queue job id i; id NumContacts + 1 belongs to no row, and campaign id
\* CampaignId + 1 to no campaign.
\* ------------------------------------------------------------------------

\* the call made last: its job id and status, and whether the call before
\* it was the same report
ReportCall(cid, upd, last) ==
  [op |-> "report", ok |-> CampaignExists(cid), jobId |-> upd.jobId,
   status |-> upd.status,
   repeated |-> (CampaignExists(cid) /\ last.op = "report" /\ last.ok
                   /\ last.jobId = upd.jobId /\ last.status = upd.status)]

\* the campaign ids a report may name: the campaign's and one of no campaign
ReportedCampaigns == {CampaignId, CampaignId + 1}

ReportJobOutcome(cid, q, st) ==
  LET upd == IF st \in {"processing", "completed", "failed"}
             THEN WorkerUpdate(st, q)
             ELSE JobUpdate(q, st, NoStr, NoStr, NoStr, NoStr)
  IN  /\ UpdateCampaignJobProgress(cid, upd)
      /\ response' = ReportCall(cid, upd, response)
      /\ UNCHANGED <<sched, setup, queue, requests, workers, sends, now>>

InitReport ==
  /\ setup \in [hasGroup : {TRUE}, templates : {1}, contacts : {NumContacts},
                rowVersioning : {FALSE}]
  /\ \E st \in [1..NumContacts -> JobStatuses],
        cst \in {"running", "paused", "cancelled", "completed"} :
       /\ jobs = [i \in 1..NumContacts |->
                    [UsedJob(i, st[i], 0) EXCEPT !.queueJobId = i]]
       /\ campaign = [CampaignOver(jobs) EXCEPT !.status = cst]
  /\ queue = <<>>
  /\ requests = {}
  /\ workers = [w \in Workers |-> IdleWorker]
  /\ sends = [i \in 1..MaxJobRows |-> 0]
  /\ now = 0
  /\ response = NoCall
  /\ sched = NoSched

NextReport ==
  \E cid \in ReportedCampaigns, q \in 1..(NumContacts + 1), st \in JobStatuses :
    ReportJobOutcome(cid, q, st)

SpecReport == InitReport /\ [][NextReport]_vars

\* ------------------------------------------------------------------------
\* The start route called on a campaign in any status, with or without a job
\* row of an earlier run, whose group, templates and contacts are arbitrary.
\* ------------------------------------------------------------------------

InitStart ==
  /\ setup \in Setups
  /\ \/ jobs = <<>> /\ campaign = NewCampaign
     \/ \E st \in JobStatuses,
           cst \in {"running", "paused", "cancelled", "completed"} :
          /\ jobs = <<[UsedJob(1, st, 0) EXCEPT !.queueJobId = 0 - 2]>>
          /\ campaign = [CampaignOver(jobs) EXCEPT !.status = cst]
  /\ queue = <<>>
  /\ requests = {}
  /\ workers = [w \in Workers |-> IdleWorker]
  /\ sends = [i \in 1..MaxJobRows |-> 0]
  /\ now \in {0, TicksPerMinute}
  /\ response = NoCall
  /\ sched = NoSched

NextStart ==
  \/ StartRoute
  \/ \E r \in requests : Enqueue(r)
  \/ \E r \in requests : Link(r)

SpecStart == InitStart /\ [][NextStart]_vars

\* ------------------------------------------------------------------------
\* Properties
\* ------------------------------------------------------------------------

Started == campaign.status # "inactive"
TerminalJob == {"completed", "failed", "cancelled"}
Quiescent == \A w \in Workers : workers[w].pc = "idle"

\* C1: once a campaign has been started, messagesSent + messagesFailed +
\* messagesPending equals totalContacts in every reachable state.
C1_CountersSumToTotal ==
  Started =>
    campaign.messagesSent + campaign.messagesFailed + campaign.messagesPending
      = campaign.totalContacts

\* C2: a campaign whose status is completed has messagesPending = 0 and
\* nextSendAt = null, also after later operations on its jobs.
C2_CompletedHasNothingPending ==
  campaign.status = "completed" =>
    campaign.messagesPending = 0 /\ campaign.nextSendAt = NULL

\* C3: once every job of a started campaign has had a terminal outcome
\* reported and no report is still running, the campaign is completed with
\* messagesSent + messagesFailed = totalContacts and messagesPending = 0.
C3_AllReportedMeansCompleted ==
  ( /\ Started
    /\ Quiescent
    /\ \A i \in RowsOf(jobs, CampaignId) : jobs[i].status \in {"completed", "failed"} )
  => /\ campaign.status = "completed"
     /\ campaign.messagesPending = 0
     /\ campaign.messagesSent + campaign.messagesFailed = campaign.totalContacts

\* C4: when no updateCampaignJobProgress call is running, the campaign's
\* counters equal the per-status counts of its job rows: concurrent calls for
\* different jobs lose no update.
C4_ReportsSerialize ==
  (Started /\ Quiescent) =>
    /\ campaign.messagesSent = CountStatus(jobs, CampaignId, {"completed"})
    /\ campaign.messagesFailed = CountStatus(jobs, CampaignId, {"failed"})
    /\ campaign.messagesPending = CountStatus(jobs, CampaignId, {"pending", "processing"})

\* C5: cancelled is terminal: no step changes the status of a cancelled
\* campaign.
C5_CancelledIsTerminal ==
  [][campaign.status = "cancelled" => campaign'.status = "cancelled"]_vars

\* C6: the status changes to completed only from running.
C6_CompletedOnlyFromRunning ==
  [][(campaign'.status = "completed" /\ campaign.status # "completed")
       => campaign.status = "running"]_vars

\* C7: a job that is completed, failed or cancelled keeps its status, except
\* that a retry moves a failed job to pending with retryCount one higher.
C7_TerminalJobsStay ==
  [][\A i \in 1..Len(jobs) :
       jobs[i].status \in TerminalJob =>
         \/ jobs'[i].status = jobs[i].status
         \/ /\ jobs[i].status = "failed"
            /\ jobs'[i].status = "pending"
            /\ jobs'[i].retryCount = jobs[i].retryCount + 1]_vars

\* C8: a cancelCampaign that succeeds leaves no job pending, leaves every
\* completed, failed or processing job as it was and leaves the campaign
\* cancelled with nextSendAt null; on a completed campaign it fails and
\* changes neither the campaign nor a job.
C8_CancelSemantics ==
  [][CancelRoute =>
       IF campaign.status = "completed"
       THEN /\ response' = Call("cancel", FALSE)
            /\ campaign' = campaign
            /\ jobs' = jobs
       ELSE /\ response' = Call("cancel", TRUE)
            /\ campaign'.status = "cancelled"
            /\ campaign'.nextSendAt = NULL
            /\ Len(jobs') = Len(jobs)
            /\ \A i \in 1..Len(jobs) :
                 /\ jobs'[i].status # "pending"
                 /\ jobs[i].status \in {"completed", "failed", "processing"}
                      => jobs'[i] = jobs[i]]_vars

C8_Witness ==
  /\ response = Call("cancel", TRUE)
  /\ campaign.status = "cancelled"
  /\ \E i \in 1..Len(jobs) : jobs[i].status = "cancelled"
  /\ \E i \in 1..Len(jobs) : jobs[i].status = "processing"
  /\ campaign.messagesPending = Len(jobs)

\* C9: startCampaign on a running or completed campaign fails, creates no
\* job row and leaves the campaign as it was.
C9_StartRejected ==
  [][(StartRoute /\ campaign.status \in {"running", "completed"}) =>
       /\ response' = Call("start", FALSE)
       /\ jobs' = jobs
       /\ campaign' = campaign]_vars

C9_Witness ==
  /\ response = Call("start", FALSE)
  /\ campaign.status = "running"
  /\ campaign.totalContacts = Len(jobs)
  /\ Len(jobs) > 0

\* C10: pauseCampaign succeeds exactly from running (status paused, pausedAt
\* set) and resumeCampaign exactly from paused (status running, pausedAt
\* null); in any other status each fails and leaves the campaign unchanged.
C10_PauseResumeGuards ==
  [][/\ PauseRoute =>
          IF campaign.status = "running"
          THEN /\ response' = Call("pause", TRUE)
               /\ campaign'.status = "paused"
               /\ campaign'.pausedAt # NoStr
          ELSE /\ response' = Call("pause", FALSE)
               /\ campaign' = campaign
     /\ ResumeRoute =>
          IF campaign.status = "paused"
          THEN /\ response' = Call("resume", TRUE)
               /\ campaign'.status = "running"
               /\ campaign'.pausedAt = NoStr
          ELSE /\ response' = Call("resume", FALSE)
               /\ campaign' = campaign]_vars

C10_Witness ==
  /\ response = Call("resume", TRUE)
  /\ campaign.status = "running"
  /\ campaign.pausedAt = NoStr
  /\ campaign.startedAt # NoStr

\* C11: retryFailedJob acts exactly on the jobs that are failed with
\* retryCount < maxRetries: it sets status pending, scheduledAt to now and
\* retryCount one higher; on every other job it throws and leaves the row as
\* it was.
C11_RetryEligibility ==
  [][\A id \in 1..MaxJobRows :
       RetryRoute(id) =>
         IF jobs[id].status = "failed" /\ jobs[id].retryCount < jobs[id].maxRetries
         THEN /\ response' = Call("retry", TRUE)
              /\ jobs'[id].status = "pending"
              /\ jobs'[id].scheduledAt = now
              /\ jobs'[id].retryCount = jobs[id].retryCount + 1
         ELSE /\ response' = Call("retry", FALSE)
              /\ jobs'[id].status = jobs[id].status
              /\ jobs'[id].retryCount = jobs[id].retryCount
              /\ jobs'[id].scheduledAt = jobs[id].scheduledAt]_vars

\* a retry accepted for one job and then one rejected for a failed job that
\* has used up its retries
C11_Witness ==
  /\ response = Call("retry", FALSE)
  /\ \E i \in 1..Len(jobs) :
       jobs[i].status = "failed" /\ jobs[i].retryCount = jobs[i].maxRetries
  /\ \E r \in requests : r.kind = "retry"

\* C12: a completed or failed report applied a second time, right after the
\* first, leaves the campaign's counters, percentage and status as the first
\* application left them.
C12_ReportIdempotent ==
  [][(/\ response'.op = "report"
      /\ response'.repeated
      /\ response'.status \in {"completed", "failed"})
       => /\ campaign'.messagesSent = campaign.messagesSent
          /\ campaign'.messagesFailed = campaign.messagesFailed
          /\ campaign'.messagesPending = campaign.messagesPending
          /\ campaign'.progressPercentage = campaign.progressPercentage
          /\ campaign'.status = campaign.status]_vars

\* a completed report for a row has just been applied for the second time
C12_Witness ==
  /\ response.op = "report"
  /\ response.repeated
  /\ response.status = "completed"
  /\ response.jobId \in 1..Len(jobs)
  /\ jobs[response.jobId].status = "completed"
  /\ campaign.messagesSent >= 1

\* an occurrence of the daily window of c holds t: t is at or after the
\* occurrence's start and before its end
InsideDailyWindow(c, t) ==
  LET length == IF c.dailyStartTime <= c.dailyEndTime
                THEN c.dailyEndTime - c.dailyStartTime
                ELSE c.dailyEndTime + Day - c.dailyStartTime
  IN  \E k \in 0..(MaxDays + 1) :
        /\ k * Day + c.dailyStartTime <= t
        /\ t < k * Day + c.dailyStartTime + length

\* C13: every timestamp scheduleJobsWithTimeWindows has scheduled for a
\* window-restricted campaign lies in an occurrence of the daily window, at or
\* after its start and strictly before its end.
C13_TimestampsInsideWindow ==
  ~RunsAllDay(sched.c) =>
    \A i \in 1..Len(sched.scheduledTimes) :
      InsideDailyWindow(sched.c, sched.scheduledTimes[i])

\* an overnight window: the call returned two timestamps, the second in the
\* window's next occurrence
C13_Witness ==
  /\ sched.pc = "returned"
  /\ ~RunsAllDay(sched.c)
  /\ sched.c.dailyStartTime > sched.c.dailyEndTime
  /\ Len(sched.scheduledTimes) = 2
  /\ sched.scheduledTimes[2] >= sched.scheduledTimes[1] + Day

\* C14: for an all-day campaign scheduleJobsWithTimeWindows returns totalJobs
\* timestamps, the first equal to startTime, each later than the one before.
C14_AllDayStrictlyIncreasing ==
  (sched.pc = "returned" /\ sched.c.isAllDay) =>
    /\ Len(sched.scheduledTimes) = sched.totalJobs
    /\ sched.totalJobs > 0 => sched.scheduledTimes[1] = sched.referenceTime
    /\ \A i \in 1..(Len(sched.scheduledTimes) - 1) :
         sched.scheduledTimes[i] < sched.scheduledTimes[i + 1]

\* the campaign runs all day: it says so, or it has no daily window
AllDayCampaign(c) ==
  c.isAllDay \/ c.dailyStartTime = NULL \/ c.dailyEndTime = NULL

\* the time of day of t lies in the closed daily window of c
InClosedDailyWindow(c, t) ==
  LET timeOfDay == t % Day
  IN  IF c.dailyStartTime <= c.dailyEndTime
      THEN c.dailyStartTime <= timeOfDay /\ timeOfDay <= c.dailyEndTime
      ELSE timeOfDay >= c.dailyStartTime \/ timeOfDay <= c.dailyEndTime

\* C15: getScheduleInfo answers canScheduleNow exactly when the campaign runs
\* all day or the reference time lies in the closed daily window; for an
\* all-day campaign both windows are null and nextAvailableTime is the
\* reference time, whatever the daily times are.
C15_CanScheduleNow ==
  sched.pc = "info" =>
    /\ sched.info.canScheduleNow <=>
         (AllDayCampaign(sched.c) \/ InClosedDailyWindow(sched.c, sched.referenceTime))
    /\ AllDayCampaign(sched.c) =>
         /\ sched.info.currentWindow = NoWindow
         /\ sched.info.nextWindow = NoWindow
         /\ sched.info.nextAvailableTime = sched.referenceTime

\* the reference time is the last instant of a same-day window
C15_Witness ==
  /\ sched.pc = "info"
  /\ ~AllDayCampaign(sched.c)
  /\ sched.c.dailyStartTime < sched.c.dailyEndTime
  /\ sched.referenceTime % Day = sched.c.dailyEndTime
  /\ sched.info.canScheduleNow

\* midnight of the day of t
Midnight(t) == t - (t % Day)

\* C16: for an overnight window, a reference time at or after today's start
\* gets the window from today's start to tomorrow's end, one at or before
\* today's end the window from yesterday's start to today's end; in both
\* remainingMinutes is the whole minutes from the reference time to the
\* window's end and the reference time lies in the window.
C16_OvernightWindow ==
  ( /\ sched.pc = "info"
    /\ ~AllDayCampaign(sched.c)
    /\ sched.c.dailyStartTime > sched.c.dailyEndTime )
  => LET t == sched.referenceTime
         w == sched.info.currentWindow
         late == t % Day >= sched.c.dailyStartTime
         early == t % Day <= sched.c.dailyEndTime
     IN  /\ late => /\ w # NoWindow
                    /\ w.start = Midnight(t) + sched.c.dailyStartTime
                    /\ w.end = Midnight(t) + Day + sched.c.dailyEndTime
         /\ early => /\ w # NoWindow
                     /\ w.start = Midnight(t) - Day + sched.c.dailyStartTime
                     /\ w.end = Midnight(t) + sched.c.dailyEndTime
         /\ (late \/ early) =>
               /\ w.start <= t /\ t <= w.end
               /\ w.remainingMinutes * TicksPerMinute <= w.end - t
               /\ w.end - t < (w.remainingMinutes + 1) * TicksPerMinute

\* the early part of an overnight window, a part of a minute before its end
C16_Witness ==
  /\ sched.pc = "info"
  /\ ~AllDayCampaign(sched.c)
  /\ sched.c.dailyStartTime > sched.c.dailyEndTime
  /\ sched.referenceTime % Day < sched.c.dailyEndTime
  /\ sched.info.currentWindow # NoWindow
  /\ sched.info.currentWindow.start < Midnight(sched.referenceTime)
  /\ (sched.info.currentWindow.end - sched.referenceTime) % TicksPerMinute # 0

\* C17: when getScheduleInfo answers canScheduleNow = false,
\* nextAvailableTime is nextWindow.start: today's start when the reference
\* time is before it, else tomorrow's; it is after the reference time, no
\* instant from the reference time up to it lies in the daily window, and
\* nextWindow.end is the first daily end time at or after nextWindow.start.
C17_NextWindow ==
  ( /\ sched.pc = "info"
    /\ ~sched.info.canScheduleNow )
  => LET t == sched.referenceTime
         c == sched.c
         w == sched.info.nextWindow
     IN  /\ w # NoWindow
         /\ sched.info.nextAvailableTime = w.start
         /\ w.start = IF t % Day < c.dailyStartTime
                      THEN Midnight(t) + c.dailyStartTime
                      ELSE Midnight(t) + Day + c.dailyStartTime
         /\ w.start > t
         /\ \A u \in t..(w.start - 1) : ~InClosedDailyWindow(c, u)
         /\ w.end = w.start + ((c.dailyEndTime + Day - c.dailyStartTime) % Day)

\* between the end and the start of an overnight window
C17_Witness ==
  /\ sched.pc = "info"
  /\ ~sched.info.canScheduleNow
  /\ sched.c.dailyStartTime > sched.c.dailyEndTime
  /\ sched.info.nextWindow # NoWindow
  /\ sched.info.nextWindow.end > Midnight(sched.referenceTime) + Day

\* C18: with minIntervalMinutes = maxIntervalMinutes = d, a same-day window,
\* a start time before the window opens that day and at most
\* floor(window minutes / d) jobs, scheduleJobsWithTimeWindows returns one
\* timestamp per job, the first at the window's start, each d minutes after
\* the one before.
C18_FixedIntervalInWindow ==
  LET c == sched.c
      d == c.minIntervalMinutes
      opens == Midnight(sched.referenceTime) + c.dailyStartTime
  IN  ( /\ sched.pc = "returned"
        /\ ~AllDayCampaign(c)
        /\ c.maxIntervalMinutes = d /\ d >= 1
        /\ c.dailyStartTime <= c.dailyEndTime
        /\ sched.referenceTime < opens
        /\ sched.totalJobs <=
             ((c.dailyEndTime - c.dailyStartTime) \div TicksPerMinute) \div d )
      => /\ Len(sched.scheduledTimes) = sched.totalJobs
         /\ \A i \in 1..Len(sched.scheduledTimes) :
              sched.scheduledTimes[i] = opens + (i - 1) * d * TicksPerMinute

\* two jobs in one window, the second one interval after the first
C18_Witness ==
  /\ sched.pc = "returned"
  /\ ~AllDayCampaign(sched.c)
  /\ sched.c.minIntervalMinutes = 1 /\ sched.c.maxIntervalMinutes = 1
  /\ sched.c.dailyStartTime < sched.c.dailyEndTime
  /\ sched.referenceTime % Day < sched.c.dailyStartTime
  /\ sched.totalJobs = 2
  /\ Len(sched.scheduledTimes) = 2
  /\ sched.scheduledTimes[2] = sched.scheduledTimes[1] + TicksPerMinute
  /\ sched.scheduledTimes[1] = Midnight(sched.referenceTime) + sched.c.dailyStartTime

\* a step in which POST /campaign/:id/start got startCampaign's result
StartSucceeds == response' = Call("start", TRUE) /\ response' # response

\* C19: when startCampaign succeeds with k jobs, the campaign is running with
\* totalContacts = messagesPending = k, messagesSent = messagesFailed =
\* progressPercentage = 0, and exactly k rows were added, each pending with
\* one of the allocator's timestamps, k being the smaller of the number of
\* contacts and the number of timestamps.
C19_StartPostcondition ==
  [][ StartSucceeds =>
        \E draws \in [1..setup.contacts ->
                        GetRandomInterval(campaign.minIntervalMinutes,
                                          campaign.maxIntervalMinutes)] :
          LET times == ScheduleJobsAllDay(setup.contacts, now, draws)
              k == Min({setup.contacts, Len(times)})
          IN  /\ k >= 1
              /\ campaign'.status = "running"
              /\ campaign'.totalContacts = k
              /\ campaign'.messagesPending = k
              /\ campaign'.messagesSent = 0
              /\ campaign'.messagesFailed = 0
              /\ campaign'.progressPercentage = 0
              /\ Len(jobs') = Len(jobs) + k
              /\ \A i \in 1..Len(jobs) : jobs'[i] = jobs[i]
              /\ \A i \in 1..k :
                   /\ jobs'[Len(jobs) + i].campaignId = CampaignId
                   /\ jobs'[Len(jobs) + i].status = "pending"
                   /\ jobs'[Len(jobs) + i].scheduledAt = times[i] ]_vars

\* a campaign just started for two contacts
C19_Witness ==
  /\ response = Call("start", TRUE)
  /\ campaign.status = "running"
  /\ setup.contacts = 2
  /\ Len(jobs) = 2
  /\ campaign.totalContacts = 2 /\ campaign.messagesPending = 2
  /\ \A i \in 1..2 : jobs[i].status = "pending" /\ jobs[i].queueJobId = NULL
  /\ jobs[1].scheduledAt = now
  /\ jobs[2].scheduledAt > jobs[1].scheduledAt

\* C20: a running campaign has no pending job row left without a queue job:
\* every row a start created either carries the queue's job id or is still
\* in the enqueue loop of the request that created it.
C20_StartedJobsEnqueued ==
  campaign.status = "running" =>
    \A i \in 1..Len(jobs) :
      (jobs[i].status = "pending" /\ jobs[i].queueJobId = NULL) =>
        \E r \in requests : \E n \in 1..Len(r.todo) : r.todo[n].id = i

\* the campaign lacks something createCampaignJobs asks for
NothingToSchedule(s) == ~s.hasGroup \/ s.templates = 0 \/ s.contacts = 0

C23_Terminates ==
  [][ ( /\ sched.pc = "loop" /\ sched'.pc = "loop"
        /\ sched'.currentTime = sched.currentTime + Day )
      => Len(sched'.scheduledTimes) > Len(sched.scheduledTimes) ]_vars

\* the campaign's job rows whose status is in S
RowsWithStatus(tbl, S) ==
  {i \in 1..Len(tbl) : tbl[i].campaignId = CampaignId /\ tbl[i].status \in S}

\* C24: updateCampaignJobProgress for an existing campaign with a jobId that
\* matches no job row changes no job row and sets messagesSent, messagesFailed and
\* messagesPending to the numbers of completed, failed and pending or
\* processing rows; cancelled rows are counted nowhere.
C24_UnknownJobStillAggregates ==
  [][ ( /\ response'.op = "report"
        /\ response'.ok
        /\ response' # response
        /\ \A i \in 1..Len(jobs) : jobs[i].queueJobId # response'.jobId )
      => /\ jobs' = jobs
         /\ campaign'.messagesSent =
              Cardinality(RowsWithStatus(jobs, {"completed"}))
         /\ campaign'.messagesFailed =
              Cardinality(RowsWithStatus(jobs, {"failed"}))
         /\ campaign'.messagesPending =
              Cardinality(RowsWithStatus(jobs, {"pending", "processing"})) ]_vars

\* a report for an unknown job id has been applied over a cancelled and a
\* completed row
C24_Witness ==
  /\ response.op = "report"
  /\ response.ok
  /\ \A i \in 1..Len(jobs) : jobs[i].queueJobId # response.jobId
  /\ \E i \in 1..Len(jobs) : jobs[i].status = "cancelled"
  /\ \E i \in 1..Len(jobs) : jobs[i].status = "completed"
  /\ campaign.messagesSent = 1
  /\ campaign.messagesFailed = 0 /\ campaign.messagesPending = 0

\* C25: when updateCampaignJobProgress fails because its campaignId matches
\* no campaign, the call is rolled back: the job row named by jobId keeps its
\* status and result fields, and no campaign counter is written.
C25_FailedReportRolledBack ==
  [][ ( /\ response'.op = "report"
        /\ ~response'.ok
        /\ response' # response )
      => /\ jobs' = jobs
         /\ campaign' = campaign ]_vars

\* the failed call named a pending row and asked for another status
C25_Witness ==
  /\ response.op = "report"
  /\ ~response.ok
  /\ response.status = "completed"
  /\ \E i \in 1..Len(jobs) :
       /\ jobs[i].queueJobId = response.jobId
       /\ jobs[i].status = "pending"
       /\ jobs[i].processedAt = NoStr
  /\ campaign.messagesSent = 0

\* C26: the stored counters of a started campaign agree with its job rows:
\* messagesPending is the number of pending or processing rows, messagesSent
\* the number of completed rows, messagesFailed the number of failed rows.
C26_CountersAgreeWithRows ==
  Started =>
    /\ campaign.messagesPending =
         Cardinality(RowsWithStatus(jobs, {"pending", "processing"}))
    /\ campaign.messagesSent = Cardinality(RowsWithStatus(jobs, {"completed"}))
    /\ campaign.messagesFailed = Cardinality(RowsWithStatus(jobs, {"failed"}))

\* C27: the campaign has as many job rows as totalContacts says, and no
\* contact has two job rows in it, also after the campaign was started again.
C27_OneJobPerContact ==
  Started =>
    /\ Cardinality(RowsOf(jobs, CampaignId)) = campaign.totalContacts
    /\ \A i, j \in RowsOf(jobs, CampaignId) :
         jobs[i].contactId = jobs[j].contactId => i = j

\* C28: when the queue job of a row that cancelCampaign made cancelled fires,
\* the worker does not go on to the transport and the row stays cancelled.
C28_CancelledJobNotSent ==
  [][ \A w \in Workers :
        (workers[w].pc = "idle" /\ workers'[w].pc # "idle") =>
          LET i == queue[workers'[w].q].campaignJobId
          IN  jobs[i].status = "cancelled" =>
                /\ workers'[w].pc # "send"
                /\ jobs'[i].status = "cancelled" ]_vars

\* C29: when a worker starts on a queue job, the job row it was added for
\* already carries that queue job's id, so that the worker's reports find the
\* row.
C29_ReportsFindTheRow ==
  [][ \A w \in Workers :
        (workers[w].pc = "idle" /\ workers'[w].pc # "idle") =>
          jobs[queue[workers'[w].q].campaignJobId].queueJobId = workers'[w].q
    ]_vars

\* C30: the transport send succeeds at most once per scheduling of a job
\* row: once for the original schedule and once for each retryFailedJob.
C30_SentOncePerScheduling ==
  \A i \in 1..Len(jobs) : sends[i] <= 1 + jobs[i].retryCount

====
